---- MODULE Spec2Model ----
(***************************************************************************)
(* Model of app.py: a Streamlit script that is re-executed from top to     *)
(* bottom on every user interaction.                                       *)
(*                                                                         *)
(* A run is modelled call by call: one Step is one st.* call together with *)
(* the plain Python that follows it up to the next st.* call.  A run       *)
(* blocks in the remote call (line 103), so sending the request and the    *)
(* return of the call are separate steps.  An interaction that arrives     *)
(* while a run is under way requests a rerun; Streamlit delivers it as an  *)
(* exception raised by the run's next st.* call.  The exception derives    *)
(* from BaseException: it passes the `except Exception` handlers of lines  *)
(* 22 and 51 and stops the run, but the bare `except:` of line 124 catches *)
(* it when it is raised by the st.caption of line 123; the st.caption of   *)
(* line 125 in the handler is a st.* call like any other.                  *)
(*                                                                         *)
(* Widget values (selectbox, file uploader, cropper box) and               *)
(* st.session_state survive from run to run; everything else (client,      *)
(* rendered elements, requests) belongs to one run.  The page keeps the    *)
(* elements of the previous run until the running one has ended, so the    *)
(* user can still operate a widget the running script has not rendered.    *)
(*                                                                         *)
(* st.set_page_config (line 32), st.columns (line 58) and the `with`       *)
(* blocks render no element of their own and are not listed in `screen`;   *)
(* a run stopped at one of them is in the state of a run stopped at the    *)
(* st.* call that follows.                                                 *)
(***************************************************************************)
EXTENDS Integers, Sequences, FiniteSets, TLC

VARIABLES
    secrets,              \* what st.secrets held when this run read it (line 18)
    session,              \* st.session_state (a function from keys to values)
    client,               \* module-level `client` of this run
    aspect_ratio_option,  \* value the sidebar selectbox returns in this run
    uploaded_file,        \* value st.file_uploader returns in this run
    box,                  \* selection st_cropper (key "canvas") returns in this run
    pressed,              \* TRUE iff this run was triggered by a click on the button
    screen,               \* elements rendered by this run so far, in order
    uncaught,             \* exception that propagated out of this run
    requests,             \* object_localization invocations of this run
    encInput,             \* bitmap handed to final_img.save in this run
    response,             \* response the remote call returned to this run
    pc,                   \* where the run is: see PcStates
    pending,              \* rerun request of the script runner: see Pending
    swallowed,            \* TRUE iff line 124 caught a rerun request in this run
    handler,              \* TRUE iff the run is in the except block of line 124,
                          \*   having caught a rerun request, before line 125
    stale                 \* widgets of earlier runs the page still shows

vars == <<secrets, session, client, aspect_ratio_option, uploaded_file, box, pressed,
          screen, uncaught, requests, encInput, response, pc, pending, swallowed,
          handler, stale>>

(***************************************************************************)
(* Bounds of the model.                                                    *)
(***************************************************************************)
MaxPixels == 2     \* uploaded bitmaps have at most MaxPixels pixels
MaxEntries == 2    \* a response carries at most MaxEntries annotations

None == "None"

(***************************************************************************)
(* Bitmaps: [mode, size, px], px in row-major order, one tuple of band     *)
(* values per pixel.                                                       *)
(***************************************************************************)
Modes == {"RGB", "RGBA", "LA", "P"}

\* Band values of the k-th sample colour in each mode.  Sample 1 is fully
\* transparent black, sample 2 half transparent red, sample 3 opaque blue.
SamplePixel(mode, k) ==
    LET rgba == CASE k = 1 -> <<0, 0, 0, 0>>
                  [] k = 2 -> <<255, 0, 0, 128>>
                  [] OTHER -> <<0, 0, 255, 255>>
    IN CASE mode = "RGBA" -> rgba
         [] mode = "RGB"  -> <<rgba[1], rgba[2], rgba[3]>>
         [] mode = "LA"   -> <<rgba[1], rgba[4]>>
         [] OTHER         -> <<k - 1>>

Seeds == {0, 1}

SampleBitmap(mode, w, h, seed) ==
    [mode |-> mode, size |-> <<w, h>>,
     px |-> [i \in 1..(w * h) |-> SamplePixel(mode, ((seed + i - 1) % 3) + 1)]]

Sizes == {sz \in (1..MaxPixels) \X (1..MaxPixels) : sz[1] * sz[2] <= MaxPixels}

Bitmaps ==
    {SampleBitmap(m, sz[1], sz[2], s) : m \in Modes, sz \in Sizes, s \in Seeds}

NoBitmap == [mode |-> None, size |-> <<0, 0>>, px |-> <<>>]

\* An uploaded file holds a bitmap, bytes Image.open rejects, or an image
\* whose header Image.open accepts and whose pixel data does not decode
\* (Image.open is lazy: it reads the header only).
\*   valid:    Image.open returns an image
\*   loadable: the pixel data of that image can be loaded
NoFile == [present |-> FALSE, valid |-> FALSE, loadable |-> FALSE, bitmap |-> NoBitmap]
BadFile == [present |-> TRUE, valid |-> FALSE, loadable |-> FALSE, bitmap |-> NoBitmap]
TruncatedFile ==
    [present |-> TRUE, valid |-> TRUE, loadable |-> FALSE,
     bitmap |-> [mode |-> "RGB", size |-> <<1, 1>>, px |-> <<>>]]
Files ==
    {[present |-> TRUE, valid |-> TRUE, loadable |-> TRUE, bitmap |-> b] : b \in Bitmaps}
    \cup {BadFile, TruncatedFile}
NoBox == [left |-> 0, top |-> 0, width |-> 0, height |-> 0]

Boxes(img) ==
    {[left |-> l, top |-> t, width |-> w, height |-> h] :
        l \in 0..(img.size[1] - 1), t \in 0..(img.size[2] - 1),
        w \in 1..img.size[1], h \in 1..img.size[2]}

BoxesWithin(img) ==
    {b \in Boxes(img) : b.left + b.width <= img.size[1] /\ b.top + b.height <= img.size[2]}

FullBox(img) == [left |-> 0, top |-> 0, width |-> img.size[1], height |-> img.size[2]]

HasAlpha(mode) == mode \in {"RGBA", "LA"}
AlphaOf(mode, p) == IF mode = "RGBA" THEN p[4] ELSE IF mode = "LA" THEN p[2] ELSE 255


(***************************************************************************)
(* Rendered elements.  Every element is [kind, text, detail, nums]: the    *)
(* Streamlit call, its fixed text, an interpolated string and the          *)
(* interpolated numbers.                                                   *)
(***************************************************************************)
El(kind, text, nums) == [kind |-> kind, text |-> text, detail |-> "", nums |-> nums]
ElD(kind, text, detail) == [kind |-> kind, text |-> text, detail |-> detail, nums |-> <<>>]

CredsErrorText == "Could not load Google Vision API credentials from Streamlit Secrets."
DecodeErrorText == "Error reading image file"
RunningText == "Running Object Localization on cropped image..."
SuccessText == "Object Localization Complete"
HeaderText == "### Detected Objects:"
NoBoxText == "Bounding box data unavailable."
NoObjectsText == "No specific objects were localized in the selected region."
WarningText == "Cannot run detection: Vision API client failed to initialize."
PromptText == "Upload an image to begin."
ButtonText == "Run Detection (Object Localization)"

(***************************************************************************)
(* st.session_state                                                        *)
(***************************************************************************)
SessionGet(s, k, default) == IF k \in DOMAIN s THEN s[k] ELSE default
SessionPut(s, k, v) == [x \in (DOMAIN s) \cup {k} |-> IF x = k THEN v ELSE s[x]]

(***************************************************************************)
(* Credential setup, lines 16-26.  cred is what the secret store holds.    *)
(***************************************************************************)
CredStates == {"valid", "absent", "malformed", "rejected"}

CredException(cred) ==
    CASE cred = "absent"    -> "KeyError"
      [] cred = "malformed" -> "JSONDecodeError"
      [] OTHER              -> "ValueError"

\* Variant in which the except branch forgets to reset the readiness flag.
CredentialSetupKeepsFlag(s, cred) ==
    IF cred = "valid"
    THEN [session |-> SessionPut(s, "client_ready", TRUE), client |-> "Client",
          out |-> <<>>]
    ELSE [session |-> s, client |-> None,
          out |-> <<El("error", CredsErrorText, <<>>),
                    ElD("exception", "", CredException(cred))>>]

CredentialSetup(s, cred) ==
    IF cred = "valid"
    THEN [session |-> SessionPut(s, "client_ready", TRUE), client |-> "Client",
          out |-> <<>>]
    ELSE [session |-> SessionPut(s, "client_ready", FALSE), client |-> None,
          out |-> <<El("error", CredsErrorText, <<>>),
                    ElD("exception", "", CredException(cred))>>]

(***************************************************************************)
(* Page chrome and sidebar, lines 32-45.                                   *)
(***************************************************************************)
AspectOptions == <<"Free", "1:1", "16:9", "4:3">>

aspect_dict ==
    ("Free" :> <<>>) @@ ("1:1" :> <<1, 1>>) @@ ("16:9" :> <<16, 9>>) @@ ("4:3" :> <<4, 3>>)

Chrome(option) ==
    <<El("title", "Vision API Demo - Object Detection Tool", <<>>),
      El("sidebar.header", "Options", <<>>),
      El("selectbox", option, aspect_dict[option]),
      El("file_uploader", "Upload an image", <<>>)>>

(***************************************************************************)
(* Image.open inside try/except, lines 49-53.                              *)
(***************************************************************************)
ImageOpen(file) ==
    IF file.valid
    THEN [image |-> file.bitmap, out |-> <<>>]
    ELSE [image |-> NoBitmap, out |-> <<El("error", DecodeErrorText, <<>>)>>]

\* `if image:` on line 55 (image is None after a failed decode)
ImageTruthy(image) == image /= NoBitmap

(***************************************************************************)
(* st_cropper(..., return_type="image"): the sub-bitmap under the box.     *)
(***************************************************************************)
Crop(img, b) ==
    [mode |-> img.mode, size |-> <<b.width, b.height>>,
     px |-> [k \in 1..(b.width * b.height) |->
               img.px[(b.top + ((k - 1) \div b.width)) * img.size[1]
                      + b.left + ((k - 1) % b.width) + 1]]]

(***************************************************************************)
(* Image pre-processing, lines 87-93.                                      *)
(***************************************************************************)
\* Pillow's 8-bit blend: (in1 * (255 - mask) + in2 * mask) / 255, rounded.
Div255(a) == LET tmp == a + 128 IN ((tmp \div 256) + tmp) \div 256
Blend8(mask, in1, in2) == Div255(in1 * (255 - mask) + in2 * mask)

\* background.paste(cropped_img, mask=cropped_img.split()[3]) on white
PasteOnWhite(p) ==
    <<Blend8(p[4], 255, p[1]), Blend8(p[4], 255, p[2]), Blend8(p[4], 255, p[3])>>

PreProcess(cropped_img) ==
    IF cropped_img.mode = "RGBA"
    THEN [mode |-> "RGB", size |-> cropped_img.size,
          px |-> [k \in 1..Len(cropped_img.px) |-> PasteOnWhite(cropped_img.px[k])]]
    ELSE cropped_img

(***************************************************************************)
(* final_img.save(buf, format="JPEG"), lines 96-98.  Pillow's JPEG writer  *)
(* raises OSError for any mode outside its raw-mode table.                 *)
(***************************************************************************)
JpegModes == {"1", "L", "RGB", "RGBX", "CMYK", "YCbCr"}

JpegSave(img) ==
    IF img.mode \in JpegModes
    THEN [ok |-> TRUE, content |-> [format |-> "JPEG", size |-> img.size, px |-> img.px]]
    ELSE [ok |-> FALSE, content |-> [format |-> None, size |-> <<0, 0>>, px |-> <<>>]]


(***************************************************************************)
(* The remote service.  Scores and coordinates are floats; the model holds  *)
(* the float k/1024 as the integer k, a value that float32 (the wire type)  *)
(* and Python's double both represent exactly.                             *)
(***************************************************************************)
Vtx(x, y) == [x |-> x, y |-> y]

EntryKinds ==
    {[name |-> "Cat", score |-> 894,
      vertices |-> <<Vtx(128, 205), Vtx(896, 205), Vtx(896, 819), Vtx(128, 819)>>],
     [name |-> "Dog", score |-> 32,
      vertices |-> <<Vtx(256, 256), Vtx(768, 256)>>],
     [name |-> "Hat", score |-> 96, vertices |-> <<>>]}

SeqsUpTo(S, n) == UNION {[1..k -> S] : k \in 0..n}

ErrorMessages == {"", "quota exceeded"}

Responses ==
    {[error |-> e, entries |-> es] : e \in ErrorMessages, es \in SeqsUpTo(EntryKinds, MaxEntries)}

NoResponse == [error |-> None, entries |-> <<>>]

\* What client.object_localization does when invoked: raise, or return.
RemoteOutcomes ==
    {[raises |-> TRUE, response |-> NoResponse]}
    \cup {[raises |-> FALSE, response |-> r] : r \in Responses}

(***************************************************************************)
(* Result rendering, lines 108-127.                                        *)
(***************************************************************************)
\* Python formats the exact binary value, correctly rounded, ties to even.
RoundHalfEven(n, d) ==
    LET q == n \div d
        r == n % d
    IN IF 2 * r > d \/ (2 * r = d /\ q % 2 = 1) THEN q + 1 ELSE q

\* f"{score:.2%}" of score/1024, in hundredths of a percent
FmtPct(score) == RoundHalfEven(score * 10000, 1024)
\* f"{x:.2f}" of x/1024, in hundredths
Fmt2f(x) == RoundHalfEven(x * 100, 1024)

BoxCaption(v) ==
    El("caption", "Box", <<Fmt2f(v[1].x), Fmt2f(v[1].y), Fmt2f(v[3].x), Fmt2f(v[3].y)>>)

\* Lines 120-125.  The f-string of line 123 raises IndexError on a polygon
\* with fewer than three vertices (v[0], v[2]); the st.caption of line 123
\* raises the script runner's rerun exception when a rerun is requested.
\* The bare except catches either and line 125 renders the fallback.
Caption(obj, rerun_raised) ==
    IF Len(obj.vertices) >= 3 /\ ~rerun_raised
    THEN BoxCaption(obj.vertices)
    ELSE El("caption", NoBoxText, <<>>)

\* Lines 118-125 for one entry, no rerun being requested.
RenderObject(obj) ==
    <<El("write", obj.name, <<FmtPct(obj.score)>>), Caption(obj, FALSE)>>

RECURSIVE RenderObjects(_)
RenderObjects(objs) ==
    IF objs = <<>> THEN <<>>
    ELSE RenderObject(Head(objs)) \o RenderObjects(Tail(objs))

\* Variant that lists the entries even when the error field is set.
RenderResponseErrorAndEntries(resp) ==
    IF resp.error /= ""
    THEN <<ElD("error", "API Error", resp.error)>>
         \o RenderObjects(resp.entries)
    ELSE <<El("success", SuccessText, <<>>), El("markdown", HeaderText, <<>>)>>
         \o (IF resp.entries /= <<>>
             THEN RenderObjects(resp.entries)
             ELSE <<El("info", NoObjectsText, <<>>)>>)

\* Variant that renders nothing for an empty entry list.
RenderResponseSilentEmpty(resp) ==
    IF resp.error /= ""
    THEN <<ElD("error", "API Error", resp.error)>>
    ELSE <<El("success", SuccessText, <<>>), El("markdown", HeaderText, <<>>)>>
         \o RenderObjects(resp.entries)

RenderResponse(resp) ==
    IF resp.error /= ""
    THEN <<ElD("error", "API Error", resp.error)>>
    ELSE <<El("success", SuccessText, <<>>), El("markdown", HeaderText, <<>>)>>
         \o (IF resp.entries /= <<>>
             THEN RenderObjects(resp.entries)
             ELSE <<El("info", NoObjectsText, <<>>)>>)


(***************************************************************************)
(* client.object_localization(image=image_for_api), line 103.  Invoking it *)
(* on None raises AttributeError; a live client sends one request.         *)
(***************************************************************************)
Request(cl, content) == [client |-> cl, content |-> content]

\* Variant that sends the request a second time when the call fails.
ObjectLocalizationRetry(cl, content, remote) ==
    IF cl = None
    THEN [requests |-> <<Request(cl, content)>>, raised |-> "AttributeError",
          response |-> NoResponse]
    ELSE IF remote.raises
    THEN [requests |-> <<Request(cl, content), Request(cl, content)>>,
          raised |-> "GoogleAPICallError", response |-> NoResponse]
    ELSE [requests |-> <<Request(cl, content)>>, raised |-> None,
          response |-> remote.response]

ObjectLocalization(cl, content, remote) ==
    IF cl = None
    THEN [requests |-> <<Request(cl, content)>>, raised |-> "AttributeError",
          response |-> NoResponse]
    ELSE IF remote.raises
    THEN [requests |-> <<Request(cl, content)>>, raised |-> "GoogleAPICallError",
          response |-> NoResponse]
    ELSE [requests |-> <<Request(cl, content)>>, raised |-> None,
          response |-> remote.response]

(***************************************************************************)
(* The button branch, lines 84-127.  Nothing in it is wrapped in a try, so *)
(* an exception from save or from the remote call leaves the script.       *)
(* While the call has not returned (remote = Waiting) the branch has sent  *)
(* the request and rendered nothing after the progress note.               *)
(***************************************************************************)
Idle == [out |-> <<>>, uncaught |-> None, requests |-> <<>>,
         encInput |-> NoBitmap, response |-> NoResponse]

DetectionAction(cl, cropped_img, remote) ==
    LET final_img == PreProcess(cropped_img)
        saved == JpegSave(final_img)
        call == ObjectLocalization(cl, saved.content, remote)
        running == <<El("info", RunningText, <<>>)>>
    IN IF ~saved.ok
       THEN [out |-> running, uncaught |-> "OSError", requests |-> <<>>,
             encInput |-> final_img, response |-> NoResponse]
       ELSE IF call.raised /= None
       THEN [out |-> running, uncaught |-> call.raised, requests |-> call.requests,
             encInput |-> final_img, response |-> NoResponse]
       ELSE IF call.response = NoResponse
       THEN [out |-> running, uncaught |-> None, requests |-> call.requests,
             encInput |-> final_img, response |-> NoResponse]
       ELSE [out |-> running \o RenderResponse(call.response), uncaught |-> None,
             requests |-> call.requests, encInput |-> final_img,
             response |-> call.response]

\* st.session_state.get('client_ready', False), line 82
\* Variant that offers the button whatever the flag says.
ClientReadyAlways(s) == TRUE

ClientReady(s) == SessionGet(s, "client_ready", FALSE)

\* st.button(...), line 83: True only in the run its click triggered.
ButtonValue(clicked) == clicked

(***************************************************************************)
(* Output column, lines 74-129.                                            *)
(***************************************************************************)
OutputColumn(s, cl, cropped_img, clicked, remote) ==
    LET head == <<El("subheader", "Cropped Result & Action", <<>>),
                  El("image", "Selected Region", cropped_img.size),
                  El("markdown", "<br>", <<>>)>>
    IN IF ClientReady(s)
       THEN LET act == IF ButtonValue(clicked)
                       THEN DetectionAction(cl, cropped_img, remote)
                       ELSE Idle
            IN [act EXCEPT !.out = head \o <<El("button", ButtonText, <<>>)>> \o @]
       ELSE [Idle EXCEPT !.out = head \o <<El("warning", WarningText, <<>>)>>]

(***************************************************************************)
(* Upload branch, lines 47-132.                                            *)
(***************************************************************************)
UploadBranch(s, cl, option, file, bx, clicked, remote) ==
    IF file.present
    THEN LET opened == ImageOpen(file)
             left == <<El("subheader", "Select Area on Image", <<>>)>>
         IN IF ImageTruthy(opened.image)
            THEN IF file.loadable
                 THEN LET cropped_img == Crop(opened.image, bx)
                          col == OutputColumn(s, cl, cropped_img, clicked, remote)
                      IN [col EXCEPT !.out =
                             opened.out \o left
                             \o <<El("st_cropper", option,
                                     <<bx.left, bx.top, bx.width, bx.height>>),
                                  El("text", "", <<>>)>>
                             \o @]
                 \* st_cropper (line 63) loads the pixel data before it renders
                 \* the component; the OSError is raised outside any try.
                 ELSE [Idle EXCEPT !.out = opened.out \o left, !.uncaught = "OSError"]
            ELSE [Idle EXCEPT !.out = opened.out]
    ELSE [Idle EXCEPT !.out = <<El("info", PromptText, <<>>)>>]

(***************************************************************************)
(* The script from top to bottom when no rerun is requested: up to the     *)
(* remote call for remote = Waiting, to its end otherwise.                 *)
(***************************************************************************)
Script(s, option, file, bx, clicked, cred, remote) ==
    LET setup == CredentialSetup(s, cred)
        body == UploadBranch(setup.session, setup.client, option, file, bx, clicked, remote)
    IN [session |-> setup.session, client |-> setup.client,
        screen |-> setup.out \o Chrome(option) \o body.out,
        uncaught |-> body.uncaught, requests |-> body.requests,
        encInput |-> body.encInput, response |-> body.response]


(***************************************************************************)
(* Runs.                                                                   *)
(***************************************************************************)
\* "starting": a rerun has been requested and the previous run is over; the
\*             script is about to be executed from line 1.
\* "running":  the run is between two st.* calls.
\* "blocked":  the run is inside client.object_localization (line 103).
\* "stopped":  the run was stopped by the rerun exception.
\* "idle":     the run ran to its end or to an uncaught exception.
PcStates == {"starting", "running", "blocked", "stopped", "idle"}

\* What can make Streamlit rerun the script: a change of the selectbox, an
\* upload, the removal of the upload, a drag of the crop box, a click on the
\* button, or a rerun in which no widget changed (page load, a changed
\* secrets file, the "Rerun" menu entry).
Kinds == {"aspect", "upload", "remove", "crop", "press", "rerun"}

\* "none":      no rerun is requested.
\* "requested": an interaction arrived during the run; the run's next st.*
\*              call raises the rerun exception.
\* a kind:      the rerun that is starting was requested by that interaction.
Pending == {"none", "requested"} \cup Kinds

\* `client` before line 20 or line 26 has been executed.
Unbound == "Unbound"

\* The secrets have not been read by the run that is starting.
Unread == "unread"

EmptySession == [k \in {} |-> FALSE]
Waiting == [raises |-> FALSE, response |-> NoResponse]

\* The call has been sent and has not returned.
Blocked(r) == r.requests /= <<>> /\ r.uncaught = None /\ r.response = NoResponse

OnScreen(kind) == \E i \in 1..Len(screen) : screen[i].kind = kind

\* The widgets a user can operate, and those the page shows: the ones this
\* run has rendered and the ones left from earlier runs.
WidgetKinds == {"selectbox", "file_uploader", "st_cropper", "button"}
Rendered == {w \in WidgetKinds : OnScreen(w)}
OnPage(w) == w \in stale \/ OnScreen(w)

\* What the run does from where it is if no rerun is requested: the script
\* evaluated on the values this run has read, with the remote call waiting
\* until its response is bound.
Plan ==
    Script(session, aspect_ratio_option, uploaded_file, box, pressed, secrets,
           IF response = NoResponse THEN Waiting
           ELSE [raises |-> FALSE, response |-> response])

\* The entry whose caption is rendered next (lines 114-125 render two
\* elements per entry after the header).
CurrentObject ==
    LET h == CHOOSE i \in 1..Len(screen) : screen[i] = El("markdown", HeaderText, <<>>)
    IN response.entries[(Len(screen) + 1 - h) \div 2]

\* The st.* call the run makes next: in the handler of line 124 the
\* st.caption of line 125, otherwise what the script does next.
HasNextCall(p) == Len(screen) < Len(p.screen)
NextCall(p) == IF handler THEN Caption(CurrentObject, TRUE) ELSE p.screen[Len(screen) + 1]

\* The st.caption of line 123, the one st.* call inside a try whose handler
\* catches the rerun exception.
InsideBareExcept(e) == e.kind = "caption" /\ e.text = "Box"

\* The Python between the call that rendered element number n of plan p and
\* the next st.* call.
\*   lines 25-26 follow the st.exception of line 24;
\*   lines 87-103 follow the st.info of line 84;
\*   the end of the script (or an exception) follows the last call, and
\*   Streamlit then removes what earlier runs left on the page.
AfterCall(p, n) ==
    /\ IF secrets /= "valid" /\ n = 2
       THEN session' = p.session /\ client' = p.client
       ELSE UNCHANGED <<session, client>>
    /\ IF n = Len(p.screen)
       THEN /\ uncaught' = p.uncaught
            /\ requests' = p.requests
            /\ encInput' = p.encInput
            /\ IF Blocked(p)
               THEN pc' = "blocked" /\ UNCHANGED stale
               ELSE pc' = "idle" /\ stale' = {}
       ELSE /\ UNCHANGED <<uncaught, requests, encInput, stale>>
            /\ pc' = "running"

\* One st.* call (no rerun requested) and the Python after it.
Step ==
    /\ pc = "running"
    /\ pending = "none"
    /\ \E p \in {Plan} :
          /\ HasNextCall(p)
          /\ screen' = Append(screen, NextCall(p))
          /\ AfterCall(p, Len(screen) + 1)
    /\ handler' = FALSE
    /\ UNCHANGED <<secrets, aspect_ratio_option, uploaded_file, box, pressed,
                   response, pending, swallowed>>

\* An interaction arrives while the run is under way: the script runner
\* records a rerun request, the run is not yet affected.
EventArrives ==
    /\ pc \in {"running", "blocked"}
    /\ pending = "none"
    /\ pending' = "requested"
    /\ UNCHANGED <<secrets, session, client, aspect_ratio_option, uploaded_file, box,
                   pressed, screen, uncaught, requests, encInput, response, pc,
                   swallowed, handler, stale>>

\* The remote call returns or raises.  An exception leaves the script (and
\* the page is cleaned up unless a rerun is about to redo it); a response is
\* bound (lines 103-106) and the run goes on to line 108.
CallReturns ==
    /\ pc = "blocked"
    /\ \E remote \in RemoteOutcomes :
          \E r \in {Script(session, aspect_ratio_option, uploaded_file, box, pressed,
                            secrets, remote)} :
             /\ uncaught' = r.uncaught
             /\ requests' = r.requests
             /\ response' = r.response
             /\ IF r.uncaught /= None
                THEN /\ pc' = "idle"
                     /\ stale' = IF pending = "requested" THEN stale ELSE {}
                ELSE pc' = "running" /\ UNCHANGED stale
    /\ UNCHANGED <<secrets, session, client, aspect_ratio_option, uploaded_file, box,
                   pressed, screen, encInput, pending, swallowed, handler>>

\* An interaction of the given kind is possible on what the page shows.
KindEnabled(kind) ==
    CASE kind = "aspect" -> OnPage("selectbox")
      [] kind = "upload" -> OnPage("file_uploader")
      [] kind = "remove" -> OnPage("file_uploader") /\ uploaded_file.present
      [] kind = "crop"   -> OnPage("st_cropper")
      [] kind = "press"  -> OnPage("button")
      [] OTHER           -> TRUE

\* The rerun requested by an interaction of the given kind begins: nothing
\* of the old run is kept but st.session_state and the widget values.
BeginRerun(kind) ==
    /\ KindEnabled(kind)
    /\ pc' = "starting"
    /\ pending' = kind
    /\ secrets' = Unread
    /\ client' = Unbound
    /\ pressed' = FALSE
    /\ screen' = <<>>
    /\ uncaught' = None
    /\ requests' = <<>>
    /\ encInput' = NoBitmap
    /\ response' = NoResponse
    /\ swallowed' = FALSE
    /\ handler' = FALSE
    /\ stale' = stale \cup Rendered
    /\ UNCHANGED <<session, aspect_ratio_option, uploaded_file, box>>

\* The run is over (finished, or stopped for the interaction) and the
\* script runner starts the rerun for the user's interaction.
Interact ==
    /\ pc \in {"idle", "stopped"}
    /\ \E kind \in Kinds : BeginRerun(kind)

\* The next st.* call of a run with a rerun requested raises the rerun
\* exception; outside the try of line 120 (the handler's own st.caption of
\* line 125 included) nothing catches it, the run stops where it is (the
\* call renders nothing, the Python after it is skipped).
RerunInterrupts ==
    /\ pc = "running"
    /\ pending = "requested"
    /\ \E p \in {Plan} : HasNextCall(p) /\ ~InsideBareExcept(NextCall(p))
    /\ pc' = "stopped"
    /\ pending' = "none"
    /\ handler' = FALSE
    /\ UNCHANGED <<secrets, session, client, aspect_ratio_option, uploaded_file, box,
                   pressed, screen, uncaught, requests, encInput, response, swallowed,
                   stale>>

\* The st.caption of line 123 raises the rerun exception and the bare except
\* of line 124 catches it: nothing is rendered, the run is in the handler
\* with the st.caption of line 125 as its next call.  The script runner has
\* handed the request over and forgets it: unless another interaction
\* arrives, the run goes on and no rerun follows the interaction.
RerunSwallowed ==
    /\ pc = "running"
    /\ pending = "requested"
    /\ ~handler
    /\ \E p \in {Plan} : HasNextCall(p) /\ InsideBareExcept(NextCall(p))
    /\ pending' = "none"
    /\ swallowed' = TRUE
    /\ handler' = TRUE
    /\ UNCHANGED <<secrets, session, client, aspect_ratio_option, uploaded_file, box,
                   pressed, screen, uncaught, requests, encInput, response, pc, stale>>

\* Lines 16-21 of a run with the given widget values: the secrets are read
\* and, when they load, the client is bound and the flag set before the
\* first st.* call.  When they do not, the except branch starts with the
\* st.error of line 23 and has changed nothing yet.
StartRun(option, file, bx, clicked, cred) ==
    /\ pc = "starting"
    /\ \E setup \in {CredentialSetup(session, cred)} :
          /\ session' = IF cred = "valid" THEN setup.session ELSE session
          /\ client' = IF cred = "valid" THEN setup.client ELSE Unbound
    /\ secrets' = cred
    /\ aspect_ratio_option' = option
    /\ uploaded_file' = file
    /\ box' = bx
    /\ pressed' = clicked
    /\ pc' = "running"
    /\ pending' = "none"
    /\ UNCHANGED <<screen, uncaught, requests, encInput, response, swallowed, handler,
                   stale>>

\* The selections st_cropper can return for a file.
Selections(file) == IF file.loadable THEN BoxesWithin(file.bitmap) ELSE {NoBox}

\* Page load: the first run is about to start with the default widget
\* values and an empty session state.
Init ==
    /\ secrets = Unread
    /\ session = EmptySession
    /\ client = Unbound
    /\ aspect_ratio_option = AspectOptions[1]
    /\ uploaded_file = NoFile
    /\ box = NoBox
    /\ pressed = FALSE
    /\ screen = <<>>
    /\ uncaught = None
    /\ requests = <<>>
    /\ encInput = NoBitmap
    /\ response = NoResponse
    /\ pc = "starting"
    /\ pending = "rerun"
    /\ swallowed = FALSE
    /\ handler = FALSE
    /\ stale = {}

\* The user picked another aspect ratio; the cropper chooses its selection.
SelectAspect ==
    /\ pending = "aspect"
    /\ \E i \in 1..Len(AspectOptions), cred \in CredStates, bx \in Selections(uploaded_file) :
          /\ AspectOptions[i] /= aspect_ratio_option
          /\ StartRun(AspectOptions[i], uploaded_file, bx, FALSE, cred)

\* The user uploaded (or replaced) a file; the cropper chooses its selection.
Upload ==
    /\ pending = "upload"
    /\ \E f \in Files, cred \in CredStates :
          \E bx \in Selections(f) :
             StartRun(aspect_ratio_option, f, bx, FALSE, cred)

\* The user removed the uploaded file.
RemoveFile ==
    /\ pending = "remove"
    /\ \E cred \in CredStates :
          StartRun(aspect_ratio_option, NoFile, NoBox, FALSE, cred)

\* The user dragged the crop box (realtime_update=True reruns the script):
\* the cropper returns another selection, if the upload allows one.
AdjustCrop ==
    /\ pending = "crop"
    /\ \E bx \in Selections(uploaded_file), cred \in CredStates :
          /\ bx /= box \/ Selections(uploaded_file) = {box}
          /\ StartRun(aspect_ratio_option, uploaded_file, bx, FALSE, cred)

\* The user clicked the detection button: st.button returns True in this run.
PressDetect ==
    /\ pending = "press"
    /\ \E cred \in CredStates :
          StartRun(aspect_ratio_option, uploaded_file, box, TRUE, cred)

\* The script is rerun with the widget values it had.
Rerun ==
    /\ pending = "rerun"
    /\ \E cred \in CredStates :
          StartRun(aspect_ratio_option, uploaded_file, box, FALSE, cred)

Next ==
    \/ SelectAspect \/ Upload \/ RemoveFile \/ AdjustCrop \/ PressDetect \/ Rerun
    \/ Step \/ EventArrives \/ CallReturns
    \/ Interact \/ RerunInterrupts \/ RerunSwallowed

Spec == Init /\ [][Next]_vars

CroppedImg == Crop(uploaded_file.bitmap, box)

TypeOK ==
    /\ pc \in PcStates
    /\ pending \in Pending
    /\ (pc = "starting") <=> (pending \in Kinds)
    /\ (pc = "starting") <=> (secrets = Unread)
    /\ secrets \in CredStates \cup {Unread}
    /\ DOMAIN session \subseteq {"client_ready"}
    /\ client \in {None, "Client", Unbound}
    /\ uploaded_file \in Files \cup {NoFile}
    /\ box \in Selections(uploaded_file)
    /\ pressed \in BOOLEAN
    /\ swallowed \in BOOLEAN
    /\ handler \in BOOLEAN
    /\ handler => (swallowed /\ pc = "running")
    /\ stale \subseteq WidgetKinds
    /\ pc = "idle" => (stale = {} \/ pending = "requested")
    /\ uncaught \in {None, "OSError", "GoogleAPICallError", "AttributeError"}
    /\ uncaught /= None => pc = "idle"
    /\ Len(requests) \in 0..1


(***************************************************************************)
(* Properties.                                                             *)
(***************************************************************************)
OnScreenEl(e) == \E i \in 1..Len(screen) : screen[i] = e

CredsError == El("error", CredsErrorText, <<>>)
DecodeError == El("error", DecodeErrorText, <<>>)
Button == El("button", ButtonText, <<>>)
Warning == El("warning", WarningText, <<>>)
Prompt == El("info", PromptText, <<>>)
Running == El("info", RunningText, <<>>)
Header == El("markdown", HeaderText, <<>>)
NoObjects == El("info", NoObjectsText, <<>>)

IsApiError(e) == e.kind = "error" /\ e.text = "API Error"

\* Elements that report the outcome of a detection request.
IsResult(e) ==
    \/ IsApiError(e)
    \/ e.kind \in {"success", "write", "caption"}
    \/ e = Header
    \/ e = NoObjects

\* Elements rendered by the button branch.
IsDetectionOutput(e) == IsResult(e) \/ e = Running

\* The run has read secrets that do not load.
CredentialsFailed == secrets \in CredStates \ {"valid"}

\* C1: the remote call is invoked only in a run whose credential loading
\* succeeded: the readiness flag is true and the client is the authenticated
\* client, never the None left by a failed load.
C1_CallOnlyWithReadyClient ==
    requests /= <<>> =>
        /\ secrets = "valid"
        /\ "client_ready" \in DOMAIN session
        /\ session["client_ready"] = TRUE
        /\ client = "Client"
        /\ \A i \in 1..Len(requests) : requests[i].client = "Client"

C1_Witness ==
    /\ pressed
    /\ Len(requests) = 1
    /\ requests[1].client = "Client"
    /\ response /= NoResponse

\* C2: a run whose credential loading fails is not ended by that failure:
\* it raises nothing (but for an upload whose pixel data does not decode),
\* never binds a client, never renders the button and never sends a
\* request; once past the except branch the flag is false and the client
\* None; and a run that is not stopped for a rerun renders the credentials
\* error, the uploader and, for a decoded upload, the cropper and the
\* preview, and ends with the warning in the button's place.
C2_FailedCredentialsDisableDetection ==
    CredentialsFailed =>
        /\ uncaught /= None => (uncaught = "OSError" /\ uploaded_file = TruncatedFile)
        /\ client /= "Client"
        /\ ~OnScreen("button")
        /\ requests = <<>>
        /\ response = NoResponse
        /\ Len(screen) >= 2 =>
              /\ screen[1] = CredsError
              /\ session["client_ready"] = FALSE
              /\ client = None
        /\ pc = "idle" =>
              /\ OnScreenEl(CredsError)
              /\ OnScreen("file_uploader")
              /\ uploaded_file.loadable =>
                    /\ OnScreen("st_cropper")
                    /\ OnScreen("image")
                    /\ screen[Len(screen)] = Warning

C2_Witness ==
    /\ pc = "idle"
    /\ secrets = "malformed"
    /\ uploaded_file.loadable
    /\ box /= FullBox(uploaded_file.bitmap)
    /\ screen[Len(screen)] = Warning

\* C3: for a response with a non-empty error message no result other than
\* that error is ever on screen, whatever entries the response carries; and
\* when the run reaches the rendering (it was not stopped for a rerun), the
\* button is followed by the progress note and that error only.
C3_ErrorOnly ==
    (response /= NoResponse /\ response.error /= "") =>
        /\ \A i \in 1..Len(screen) :
              IsResult(screen[i]) => screen[i] = ElD("error", "API Error", response.error)
        /\ pc = "idle" =>
              \E k \in 1..Len(screen) :
                 /\ screen[k] = Button
                 /\ SubSeq(screen, k + 1, Len(screen))
                       = <<Running, ElD("error", "API Error", response.error)>>

C3_Witness ==
    /\ pc = "idle"
    /\ OnScreen("error")
    /\ response /= NoResponse
    /\ response.error = "quota exceeded"
    /\ response.entries /= <<>>

\* C4: no exception raised inside a user-triggered action leaves the script
\* run unhandled.
C4_NoUnhandledException == uncaught = None

\* C5: whenever a bitmap is handed to the JPEG encoder, a crop with an alpha
\* channel has been composited onto white (same size, no alpha, transparent
\* pixels white) and a crop without one is handed over unchanged.
C5_AlphaCompositedOnWhite ==
    encInput /= NoBitmap =>
        IF HasAlpha(CroppedImg.mode)
        THEN /\ ~HasAlpha(encInput.mode)
             /\ encInput.size = CroppedImg.size
             /\ Len(encInput.px) = Len(CroppedImg.px)
             /\ \A k \in 1..Len(CroppedImg.px) :
                   AlphaOf(CroppedImg.mode, CroppedImg.px[k]) = 0
                      => \A c \in 1..Len(encInput.px[k]) : encInput.px[k][c] = 255
        ELSE encInput = CroppedImg

\* The caption the claim prescribes for one entry.
ExpectedCaption(obj) ==
    IF Len(obj.vertices) >= 3
    THEN El("caption", "Box",
            <<Fmt2f(obj.vertices[1].x), Fmt2f(obj.vertices[1].y),
              Fmt2f(obj.vertices[3].x), Fmt2f(obj.vertices[3].y)>>)
    ELSE El("caption", NoBoxText, <<>>)

\* The elements the claim prescribes for the entries rendered so far: n
\* elements after the header at position h.
EntriesAsPrescribed(h, n) ==
    \A i \in 1..Len(response.entries) :
        /\ 2 * i - 1 <= n =>
              screen[h + 2 * i - 1]
                 = El("write", response.entries[i].name, <<FmtPct(response.entries[i].score)>>)
        /\ 2 * i <= n => screen[h + 2 * i] = ExpectedCaption(response.entries[i])

\* C6: for an error-free response with entries nothing is raised, and what
\* follows the header is, entry by entry in the service's order, one
\* label/score line and one caption, the box caption for three or more
\* vertices and the fallback otherwise; a run that is not stopped renders
\* them for every entry.
C6_EntriesInOrderWithCaptions ==
    (response /= NoResponse /\ response.error = "" /\ response.entries /= <<>>) =>
        /\ uncaught = None
        /\ \A h \in 1..Len(screen) :
              screen[h] = Header =>
                 /\ Len(screen) - h <= 2 * Len(response.entries)
                 /\ EntriesAsPrescribed(h, Len(screen) - h)
                 /\ pc = "idle" => Len(screen) - h = 2 * Len(response.entries)
        /\ pc = "idle" => OnScreenEl(Header)

\* C7: the "no objects" message is on screen exactly when the run rendered
\* (was not stopped for a rerun) an error-free response without entries; it
\* is then the last element, with no entry line, no caption and no error.
C7_EmptyResultInfo ==
    /\ OnScreenEl(NoObjects)
          <=> (/\ response /= NoResponse /\ response.error = ""
               /\ response.entries = <<>> /\ pc = "idle")
    /\ OnScreenEl(NoObjects) =>
          /\ screen[Len(screen)] = NoObjects
          /\ \A i \in 1..Len(screen) :
                ~IsApiError(screen[i]) /\ screen[i].kind \notin {"write", "caption"}

C7_Witness ==
    /\ pressed
    /\ pc = "idle"
    /\ response /= NoResponse
    /\ response.error = ""
    /\ response.entries = <<>>
    /\ screen[Len(screen)] = NoObjects

\* The upload cannot be decoded as an image.
Undecodable == uploaded_file.present /\ ~uploaded_file.loadable

\* C8: a run on an undecodable upload reports the decode error inline (it
\* raises nothing, and a run that is not stopped ends with the decode
\* error) and renders no cropper, preview or button and sends no request;
\* cropper and detection controls are rendered only for a decoded upload;
\* the upload prompt is rendered only without an upload, and a run without
\* an upload that is not stopped ends with it.
C8_DecodeGate ==
    /\ (pc /= "starting" /\ Undecodable) =>
          /\ uncaught = None
          /\ pc = "idle" => screen[Len(screen)] = DecodeError
          /\ ~OnScreen("st_cropper") /\ ~OnScreen("image") /\ ~OnScreen("button")
          /\ requests = <<>>
    /\ (OnScreen("st_cropper") \/ OnScreen("image") \/ OnScreen("button")
            \/ OnScreenEl(Warning) \/ requests /= <<>>)
          => (uploaded_file.present /\ uploaded_file.loadable)
    /\ (pc = "idle" /\ ~uploaded_file.present) => screen[Len(screen)] = Prompt
    /\ OnScreenEl(DecodeError) => uploaded_file = BadFile
    /\ OnScreenEl(Prompt) => ~uploaded_file.present

\* C9 as stated: a run triggered by the button has, when it is over, issued
\* exactly one request; any other run issues none.
C9_ExactlyOneRequestPerPress ==
    /\ (pressed /\ pc \in {"idle", "stopped"}) => Len(requests) = 1
    /\ ~pressed => requests = <<>>

\* C9 as amended: a run triggered by the button issues at most one request:
\* exactly one when it gets as far as the call (its credentials load, so
\* that the button is rendered, it is not stopped for a rerun before the
\* progress note is rendered, and the JPEG encoding of the crop does not
\* raise), none otherwise; a failed call is not retried; any other run
\* issues none.
C9_AtMostOneRequestPerPress ==
    /\ Len(requests) <= 1
    /\ pressed => (Len(requests) = 1 <=> (OnScreenEl(Running) /\ uncaught /= "OSError"))
    /\ OnScreenEl(Running) => (pressed /\ secrets = "valid")
    /\ ~pressed => requests = <<>>

C9_Witness ==
    /\ pressed
    /\ pc = "idle"
    /\ uncaught = "GoogleAPICallError"
    /\ Len(requests) = 1

\* The pixel the request must carry for source pixel p of the given mode.
SubmittedPixel(mode, p) == IF mode = "RGBA" THEN PasteOnWhite(p) ELSE p

\* C10: detection output is on screen only in the run triggered by the
\* button, no interaction has taken place since that run was triggered
\* without the script having been rerun, and the request of the run carries
\* the region of the uploaded bitmap under the crop box of that same run.
C10_OutputOnlyForCurrentCrop ==
    /\ \A i \in 1..Len(screen) : IsDetectionOutput(screen[i]) => (pressed /\ ~swallowed)
    /\ ~pressed => (response = NoResponse /\ encInput = NoBitmap)
    /\ \A i \in 1..Len(requests) :
          /\ requests[i].content.size = <<box.width, box.height>>
          /\ Len(requests[i].content.px) = box.width * box.height
          /\ \A x \in 0..(box.width - 1), y \in 0..(box.height - 1) :
                requests[i].content.px[y * box.width + x + 1]
                   = SubmittedPixel(uploaded_file.bitmap.mode,
                        uploaded_file.bitmap.px[(box.top + y) * uploaded_file.bitmap.size[1]
                                                + box.left + x + 1])

====
